---- MODULE Spec2Model ----
(***************************************************************************)
(* Model of .github/scripts/generate-index.py: the time hierarchy          *)
(* (century > shikinen > year > month) built by _time_hierarchy, its       *)
(* rendering by _render_time_groups, and the "recent" selection made by    *)
(* generate_series_html / generate_index_html.                             *)
(*                                                                         *)
(* A Python str is a sequence of one-character strings; an OrderedDict is  *)
(* the sequence of its entries [k, v] in insertion order; a list is a      *)
(* sequence.  An item (issue dict) is [serial, date]; serial identifies    *)
(* the object.  Further: scan_issues and the series items of               *)
(* generate_index_html, _century_label, and main of build-pdfs.py.         *)
(***************************************************************************)
EXTENDS Integers, Sequences, FiniteSets, TLC

VARIABLES
    items,        \* the list handed to the page generator (issues / series_items)
    pc,           \* position in the program: "recent","bucket","render","done","raised", ...
    idx,          \* position of `for item in items` inside _time_hierarchy (1-based)
    tree,         \* _time_hierarchy's local `tree` (insertion-ordered)
    sorted_tree,  \* _time_hierarchy's return value
    recent,       \* sorted_by_date[:10]
    parts,        \* _render_time_groups' local `parts`
    collapsed,    \* argument of the _render_time_groups call
    lang,         \* s["lang"] of the strings table passed to the renderer
    err,          \* exception that escaped, "" when none
    zips,         \* the *.zip files of one zips/{seriesId} directory, as os.listdir gives them
    issues,       \* scan_issues' local `issues` of that series
    output,       \* the file names present in output/{seriesId}
    targets,      \* build-pdfs main's `targets`
    attempted,    \* the serial_str of every build_pdf call made, in order
    label_call    \* one call of _century_label: its arguments and its result

\* the variables of scan_issues, of build-pdfs and of the label call
other_vars == <<zips, issues, output, targets, attempted, label_call>>

vars == <<items, pc, idx, tree, sorted_tree, recent, parts, collapsed, lang, err,
          zips, issues, output, targets, attempted, label_call>>

----------------------------------------------------------------------------
(* Bounds of the model *)

MaxItems == 3

MaxRecentItems == 11

----------------------------------------------------------------------------
(* Python str / int *)

Digits == {"0", "1", "2", "3", "4", "5", "6", "7", "8", "9"}

DigitVal(c) ==
    CASE c = "0" -> 0 [] c = "1" -> 1 [] c = "2" -> 2 [] c = "3" -> 3
      [] c = "4" -> 4 [] c = "5" -> 5 [] c = "6" -> 6 [] c = "7" -> 7
      [] c = "8" -> 8 [] c = "9" -> 9

\* code point of a character (the order Python compares str by)
Ord(c) ==
    CASE c \in Digits -> 48 + DigitVal(c)
      [] c = " " -> 32 [] c = "+" -> 43 [] c = "-" -> 45 [] c = "." -> 46
      [] c = ":" -> 58
      [] c = "a" -> 97 [] c = "b" -> 98 [] c = "c" -> 99 [] c = "d" -> 100
      [] c = "e" -> 101 [] c = "f" -> 102 [] c = "g" -> 103 [] c = "h" -> 104
      [] c = "i" -> 105 [] c = "p" -> 112 [] c = "x" -> 120 [] c = "z" -> 122

Min(a, b) == IF a < b THEN a ELSE b

\* d[a:b] for 0 <= a <= b
Slice(d, a, b) == SubSeq(d, a + 1, Min(b, Len(d)))

\* a < b on str: first differing code point, a proper prefix is smaller
StrLess(a, b) ==
    \/ \E i \in 1..Min(Len(a), Len(b)) :
          /\ \A j \in 1..(i - 1) : a[j] = b[j]
          /\ Ord(a[i]) < Ord(b[i])
    \/ /\ Len(a) < Len(b)
       /\ \A j \in 1..Len(a) : a[j] = b[j]

AllDigits(str) == Len(str) > 0 /\ \A i \in 1..Len(str) : str[i] \in Digits

RECURSIVE DigitsValue(_)
DigitsValue(str) ==
    IF str = <<>> THEN 0
    ELSE 10 * DigitsValue(SubSeq(str, 1, Len(str) - 1)) + DigitVal(str[Len(str)])

\* int(str): decimal digits with an optional sign; anything else is a
\* ValueError (ok = FALSE).  Whitespace and underscores, which int() also
\* accepts, do not occur in the fields of the dates modelled here.
PyInt(str) ==
    IF AllDigits(str) THEN [ok |-> TRUE, val |-> DigitsValue(str)]
    ELSE IF Len(str) > 1 /\ str[1] \in {"+", "-"} /\ AllDigits(Tail(str))
    THEN [ok |-> TRUE,
          val |-> (IF str[1] = "-" THEN -1 ELSE 1) * DigitsValue(Tail(str))]
    ELSE [ok |-> FALSE, val |-> 0]

----------------------------------------------------------------------------
(* sorted(): CPython's list sort is a stable ascending sort (binary        *)
(* insertion for short lists); reverse=True reverses the list, sorts, and  *)
(* reverses the result.  Keys are int, tuple (pair of int) or str.         *)

KeyLess(kind, a, b) ==
    CASE kind = "int" -> a < b
      [] kind = "pair" -> a[1] < b[1] \/ (a[1] = b[1] /\ a[2] < b[2])
      [] kind = "str" -> StrLess(a, b)

Reverse(xs) == [i \in 1..Len(xs) |-> xs[Len(xs) + 1 - i]]

\* insert index p into the sorted index list `done`, after every index whose
\* key is <= keys[p] (the rightmost position: what keeps the sort stable)
InsertSorted(keys, kind, done, p) ==
    LET n == Cardinality({j \in 1..Len(done) : ~KeyLess(kind, keys[p], keys[done[j]])})
    IN  SubSeq(done, 1, n) \o <<p>> \o SubSeq(done, n + 1, Len(done))

RECURSIVE StableSort(_, _, _)
StableSort(keys, kind, order) ==
    IF order = <<>> THEN <<>>
    ELSE InsertSorted(keys, kind,
                      StableSort(keys, kind, SubSeq(order, 1, Len(order) - 1)),
                      order[Len(order)])

\* sorting ascending and reversing the result, which turns runs of equal keys round
PySortedIdx_SortThenReverse(keys, kind, reverse) ==
    LET ids == [i \in 1..Len(keys) |-> i]
    IN  IF reverse
        THEN Reverse(StableSort(keys, kind, ids))
        ELSE StableSort(keys, kind, ids)

\* the indices of `keys` in the order sorted(..., reverse=reverse) returns them
PySortedIdx(keys, kind, reverse) ==
    LET ids == [i \in 1..Len(keys) |-> i]
    IN  IF reverse
        THEN Reverse(StableSort(keys, kind, Reverse(ids)))
        ELSE StableSort(keys, kind, ids)

----------------------------------------------------------------------------
(* OrderedDict *)

od_keys(od) == [i \in 1..Len(od) |-> od[i].k]

od_has(od, key) == \E i \in 1..Len(od) : od[i].k = key

od_index(od, key) == CHOOSE i \in 1..Len(od) : od[i].k = key

od_get(od, key) == od[od_index(od, key)].v

\* the value od.setdefault(key, default) returns
od_setdefault(od, key, default) == IF od_has(od, key) THEN od_get(od, key) ELSE default

\* od after od[key] = value: in place when present, appended at the end when new
od_set(od, key, value) ==
    IF od_has(od, key)
    THEN [od EXCEPT ![od_index(od, key)] = [k |-> key, v |-> value]]
    ELSE Append(od, [k |-> key, v |-> value])

----------------------------------------------------------------------------
(* _shikinen_range and _time_hierarchy *)

century_of(year) == (year - 1) \div 100 + 1

\* cycles counted from year 1 in steps of 20 of the year itself, off by one
\* at the last year of each cycle
shikinen_range_Unaligned(year) ==
    LET shikinen_start == (year \div 20) * 20 + 1
    IN  <<shikinen_start, shikinen_start + 19>>

shikinen_range(year) ==
    LET century == (year - 1) \div 100 + 1
        century_start == (century - 1) * 100 + 1
        shikinen_idx == (year - century_start) \div 20
        shikinen_start == century_start + shikinen_idx * 20
        shikinen_end == shikinen_start + 19
    IN  <<shikinen_start, shikinen_end>>

\* the guard left out
SkipsDate_NoGuard(d) == FALSE

\* `if not d or len(d) < 7: continue`
SkipsDate(d) == d = <<>> \/ Len(d) < 7

ParseYear(d) == PyInt(Slice(d, 0, 4))

ParseMonth(d) == PyInt(Slice(d, 5, 7))

\* the month entry assigned a fresh one-item list instead of appended to
InsertItem_Overwrite(t, c_key, sh_key, y_key, m_key, item) ==
    LET c_node == od_setdefault(t, c_key, <<>>)
        sh_node == od_setdefault(c_node, sh_key, <<>>)
        y_node == od_setdefault(sh_node, y_key, <<>>)
    IN  od_set(t, c_key,
          od_set(c_node, sh_key,
            od_set(sh_node, y_key,
              od_set(y_node, m_key, <<item>>))))

\* leaf.insert(0, item) in place of leaf.append(item)
InsertItem_Prepend(t, c_key, sh_key, y_key, m_key, item) ==
    LET c_node == od_setdefault(t, c_key, <<>>)
        sh_node == od_setdefault(c_node, sh_key, <<>>)
        y_node == od_setdefault(sh_node, y_key, <<>>)
        leaf == od_setdefault(y_node, m_key, <<>>)
    IN  od_set(t, c_key,
          od_set(c_node, sh_key,
            od_set(sh_node, y_key,
              od_set(y_node, m_key, <<item>> \o leaf))))

\* tree.setdefault(c).setdefault(sh).setdefault(y).setdefault(m, []).append(item)
InsertItem(t, c_key, sh_key, y_key, m_key, item) ==
    LET c_node == od_setdefault(t, c_key, <<>>)
        sh_node == od_setdefault(c_node, sh_key, <<>>)
        y_node == od_setdefault(sh_node, y_key, <<>>)
        leaf == od_setdefault(y_node, m_key, <<>>)
    IN  od_set(t, c_key,
          od_set(c_node, sh_key,
            od_set(sh_node, y_key,
              od_set(y_node, m_key, Append(leaf, item)))))

\* reverse=True left out
SortedKeys_Ascending(od, kind) ==
    LET keys == od_keys(od)
        order == PySortedIdx(keys, kind, FALSE)
    IN  [i \in 1..Len(keys) |-> keys[order[i]]]

\* sorted(od.keys(), reverse=True)
SortedKeys(od, kind) ==
    LET keys == od_keys(od)
        order == PySortedIdx(keys, kind, TRUE)
    IN  [i \in 1..Len(keys) |-> keys[order[i]]]

\* `for m_key in sorted(...)`: sorted_y[m_key] = tree[c_key][sh_key][y_key][m_key]
SortMonths(y_node) ==
    LET keys == SortedKeys(y_node, "int")
    IN  [i \in 1..Len(keys) |-> [k |-> keys[i], v |-> od_get(y_node, keys[i])]]

\* `for y_key in sorted(...)`: sorted_sh[y_key] = sorted_y
SortYears(sh_node) ==
    LET keys == SortedKeys(sh_node, "int")
    IN  [i \in 1..Len(keys) |-> [k |-> keys[i], v |-> SortMonths(od_get(sh_node, keys[i]))]]

\* `for sh_key in sorted(...)`: sorted_c[sh_key] = sorted_sh
SortShikinen(c_node) ==
    LET keys == SortedKeys(c_node, "pair")
    IN  [i \in 1..Len(keys) |-> [k |-> keys[i], v |-> SortYears(od_get(c_node, keys[i]))]]

\* the centuries left in insertion order
SortTree_InsertionOrder(t) ==
    [i \in 1..Len(t) |-> [k |-> t[i].k, v |-> SortShikinen(t[i].v)]]

\* `for c_key in sorted(...)`: sorted_tree[c_key] = sorted_c
SortTree(t) ==
    LET keys == SortedKeys(t, "int")
    IN  [i \in 1..Len(keys) |-> [k |-> keys[i], v |-> SortShikinen(od_get(t, keys[i]))]]

\* the body of `for item in items`: "skip" (continue), "raise" (int() raised
\* ValueError) or "insert", with the tree it leaves
BucketStep(t, item) ==
    LET d == item.date
    IN  IF SkipsDate(d) THEN [kind |-> "skip", tree |-> t]
        ELSE IF ~ParseYear(d).ok \/ ~ParseMonth(d).ok THEN [kind |-> "raise", tree |-> t]
        ELSE LET year == ParseYear(d).val
                 month == ParseMonth(d).val
                 century == century_of(year)
                 sh == shikinen_range(year)
             IN  [kind |-> "insert",
                  tree |-> InsertItem(t, century, sh, year, month, item)]

RECURSIVE BucketAll(_, _)
\* the whole loop from tree t on the items its
BucketAll(t, its) ==
    IF its = <<>> THEN [raised |-> FALSE, tree |-> t]
    ELSE LET step == BucketStep(t, Head(its))
         IN  IF step.kind = "raise" THEN [raised |-> TRUE, tree |-> <<>>]
             ELSE BucketAll(step.tree, Tail(its))

\* _time_hierarchy(items, date_key, s): raised, or the sorted tree returned
time_hierarchy(its) ==
    LET built == BucketAll(<<>>, its)
    IN  IF built.raised THEN built
        ELSE [raised |-> FALSE, tree |-> SortTree(built.tree)]

----------------------------------------------------------------------------
(* labels; STRINGS[lang] entries are written in ASCII transliteration *)

Langs == {"ja", "en"}

MonthNames(s) ==
    IF s = "ja"
    THEN <<"1gatsu", "2gatsu", "3gatsu", "4gatsu", "5gatsu", "6gatsu",
           "7gatsu", "8gatsu", "9gatsu", "10gatsu", "11gatsu", "12gatsu">>
    ELSE <<"Jan", "Feb", "Mar", "Apr", "May", "Jun",
           "Jul", "Aug", "Sep", "Oct", "Nov", "Dec">>

\* the suffix taken from the last digit alone
century_label_LastDigitOnly(century, s) ==
    IF s = "ja" THEN <<century, "seiki">>
    ELSE LET suffix ==
               IF century % 10 = 1 THEN "st"
               ELSE IF century % 10 = 2 THEN "nd"
               ELSE IF century % 10 = 3 THEN "rd"
               ELSE "th"
         IN  <<century, suffix, " century">>

\* an f-string is the tuple of its pieces, numbers left as numbers
century_label(century, s) ==
    IF s = "ja" THEN <<century, "seiki">>
    ELSE LET suffix ==
               IF 11 <= century % 100 /\ century % 100 <= 13 THEN "th"
               ELSE IF century % 10 = 1 THEN "st"
               ELSE IF century % 10 = 2 THEN "nd"
               ELSE IF century % 10 = 3 THEN "rd"
               ELSE "th"
         IN  <<century, suffix, " century">>

year_label(year, s) == IF s = "ja" THEN <<year, "nen">> ELSE <<year>>

\* s["months"][month - 1] is defined for list indices -12..11: a negative
\* index counts from the end, any other index is an IndexError
MonthIndexOk(month) == -12 <= month - 1 /\ month - 1 <= 11

month_label(month, s) ==
    IF month - 1 >= 0 THEN <<MonthNames(s)[month]>>
    ELSE <<MonthNames(s)[12 + month]>>

group_count_label(count, s) ==
    IF s = "ja" THEN <<count, "ken">>
    ELSE <<count, " item", IF count # 1 THEN "s" ELSE "">>

----------------------------------------------------------------------------
(* _count_items and _render_time_groups *)

levels == <<"century", "shikinen", "year", "month">>

\* the number of direct children
count_items_Direct(node, dicts) == Len(node)

\* `isinstance(node, list)` is decided by the depth of the node:
\* dicts == number of dict levels between node and the leaf lists
RECURSIVE count_items(_, _)
count_items(node, dicts) ==
    IF dicts = 0 THEN Len(node)
    ELSE IF node = <<>> THEN 0
    ELSE count_items(node[1].v, dicts - 1) + count_items(Tail(node), dicts)

\* collapsed not consulted
OpenClass_IgnoresCollapsed(coll, first_at_level, single_child) ==
    first_at_level \/ single_child

\* only children not opened
OpenClass_NoSingleChild(coll, first_at_level, single_child) ==
    IF coll THEN FALSE ELSE first_at_level

\* open_class # ""
OpenClass(coll, first_at_level, single_child) ==
    IF coll THEN FALSE ELSE first_at_level \/ single_child

group_label(level, key, s) ==
    IF level = "century" THEN century_label(key, s)
    ELSE IF level = "shikinen" THEN <<key[1], "-", key[2]>>
    ELSE IF level = "year" THEN year_label(key, s)
    ELSE month_label(key, s)

\* render_item(item): the fragment the caller's row / card renderer returns
render_item(item) == [tag |-> "item", item |-> item]

RECURSIVE render_from(_, _, _, _, _, _)
\* the body of `for i, key in enumerate(keys)` for the keys from position i on
\* (i is 1-based, level_idx 0-based as in the source)
render_from(node, level_idx, is_first, i, coll, s) ==
    IF i > Len(node) THEN <<>>
    ELSE
      LET level == levels[level_idx + 1]
          key == node[i].k
          single_child == Len(node) = 1
          first_at_level == (i = 1) /\ is_first
          count == count_items(node[i].v, Len(levels) - 1 - level_idx)
          head == [tag |-> "group", open |-> OpenClass(coll, first_at_level, single_child),
                   level |-> level, key |-> key, label |-> group_label(level, key, s),
                   count |-> count, count_text |-> group_count_label(count, s)]
          body == IF level_idx < Len(levels) - 1
                  THEN render_from(node[i].v, level_idx + 1, first_at_level, 1, coll, s)
                  ELSE [j \in 1..Len(node[i].v) |-> render_item(node[i].v[j])]
      IN  <<head>> \o body \o <<[tag |-> "close"]>>
            \o render_from(node, level_idx, is_first, i + 1, coll, s)

\* the last '</div></div>' not appended
render_time_groups_Unclosed(t, s, coll) ==
    LET evs == render_from(t, 0, TRUE, 1, coll, s)
    IN  SubSeq(evs, 1, Len(evs) - 1)

render_time_groups(t, s, coll) == render_from(t, 0, TRUE, 1, coll, s)

\* the keys _render hands to _month_label: those of the month level
MonthKeys(t) ==
    UNION {UNION {UNION {
            {t[a].v[b].v[c].v[e].k : e \in 1..Len(t[a].v[b].v[c].v)}
          : c \in 1..Len(t[a].v[b].v)}
        : b \in 1..Len(t[a].v)}
      : a \in 1..Len(t)}

----------------------------------------------------------------------------
(* the dates the items carry (item["date"] / item["_date"], as scan_issues *)
(* leaves them: _format_datetime's output or its fallback iso_str[:10])    *)

D_2024_03 == <<"2", "0", "2", "4", "-", "0", "3", "-", "0", "1">>

D_2024_01 == <<"2", "0", "2", "4", "-", "0", "1", "-", "1", "0">>

D_2023_11 == <<"2", "0", "2", "3", "-", "1", "1", "-", "0", "1">>

D_2044_01 == <<"2", "0", "4", "4", "-", "0", "1", "-", "0", "1">>

D_1999_12 == <<"1", "9", "9", "9", "-", "1", "2", "-", "3", "1">>

D_empty == <<>>

D_short == <<"2", "0", "2", "4">>

D_badyear == <<"a", "b", "c", "d", "-", "e", "f", "-", "g", "h">>

D_badmonth == <<"2", "0", "2", "4", "-", "x", "x">>

\* month fields that are integers outside 1..12
D_month13 == <<"2", "0", "2", "4", "-", "1", "3", "-", "0", "1">>

D_month00 == <<"2", "0", "2", "4", "-", "0", "0", "-", "1", "0">>

DatePool ==
    {D_2024_03, D_2024_01, D_2023_11, D_2044_01, D_1999_12,
     D_empty, D_short, D_badyear, D_badmonth, D_month13, D_month00}

\* the dates of the long lists the recent selection is cut on
RecentPool == {D_2024_03, D_2023_11}

\* every year field of four digits, in one month
YearDates ==
    {<<a, b, c, d, "-", "0", "1">> : a \in Digits, b \in Digits, c \in Digits, d \in Digits}

\* the lists of n items with dates from pool; serial is the position in the input
ItemLists(pool, n) ==
    {[i \in 1..n |-> [serial |-> i, date |-> ds[i]]] : ds \in [1..n -> pool]}

ItemListsUpTo(pool, n) == UNION {ItemLists(pool, m) : m \in 0..n}

----------------------------------------------------------------------------
(* the generator: generate_series_html (generate_index_html has the same   *)
(* three steps on series_items)                                            *)

RecentLimit == 10

\* oldest first
SortedByDate_Ascending(its) ==
    LET order == PySortedIdx([i \in 1..Len(its) |-> its[i].date], "str", FALSE)
    IN  [i \in 1..Len(its) |-> its[order[i]]]

\* sorted(issues, key=lambda x: x["date"], reverse=True)
SortedByDate(its) ==
    LET order == PySortedIdx([i \in 1..Len(its) |-> its[i].date], "str", TRUE)
    IN  [i \in 1..Len(its) |-> its[order[i]]]

\* items without a date left out, as the bucketer leaves them out
RecentOf_SkipsEmpty(its) ==
    Slice(SortedByDate(SelectSeq(its, LAMBDA it : it.date # <<>>)), 0, RecentLimit)

\* sorted_by_date[:10]
RecentOf(its) == Slice(SortedByDate(its), 0, RecentLimit)

InitWith(lists) ==
    /\ items \in lists
    /\ pc = "recent"
    /\ idx = 1
    /\ tree = <<>>
    /\ sorted_tree = <<>>
    /\ recent = <<>>
    /\ parts = <<>>
    /\ collapsed = FALSE
    /\ lang = "ja"
    /\ err = ""
    /\ zips = <<>>
    /\ issues = <<>>
    /\ output = {}
    /\ targets = <<>>
    /\ attempted = <<>>
    /\ label_call = [century |-> 1, lang |-> "ja", label |-> <<>>]

Init == InitWith(ItemListsUpTo(DatePool, MaxItems))

\* generate_series_html, recent section
RecentSelect ==
    /\ pc = "recent"
    /\ recent' = RecentOf(items)
    /\ pc' = "bucket"
    /\ UNCHANGED <<items, idx, tree, sorted_tree, parts, collapsed, lang, err>>
    /\ UNCHANGED other_vars

\* one pass of `for item in items` in _time_hierarchy
Bucket ==
    /\ pc = "bucket"
    /\ idx <= Len(items)
    /\ LET step == BucketStep(tree, items[idx])
       IN  IF step.kind = "raise"
           THEN \* nothing up to main() catches the ValueError
                /\ pc' = "raised"
                /\ err' = "ValueError"
                /\ UNCHANGED <<tree, idx>>
           ELSE /\ tree' = step.tree
                /\ idx' = idx + 1
                /\ UNCHANGED <<pc, err>>
    /\ UNCHANGED <<items, sorted_tree, recent, parts, collapsed, lang>>
    /\ UNCHANGED other_vars

\* the sort pass of _time_hierarchy and its return
SortLevels ==
    /\ pc = "bucket"
    /\ idx > Len(items)
    /\ sorted_tree' = SortTree(tree)
    /\ pc' = "render"
    /\ UNCHANGED <<items, idx, tree, recent, parts, collapsed, lang, err>>
    /\ UNCHANGED other_vars

\* _render_time_groups(tree, render, s, collapsed)
Render ==
    /\ pc = "render"
    /\ \E coll \in BOOLEAN, s \in Langs :
          /\ collapsed' = coll
          /\ lang' = s
          /\ IF \A m \in MonthKeys(sorted_tree) : MonthIndexOk(m)
             THEN /\ parts' = render_time_groups(sorted_tree, s, coll)
                  /\ pc' = "done"
                  /\ UNCHANGED err
             ELSE /\ parts' = <<>>
                  /\ pc' = "raised"
                  /\ err' = "IndexError"
    /\ UNCHANGED <<items, idx, tree, sorted_tree, recent>>
    /\ UNCHANGED other_vars

Next == RecentSelect \/ Bucket \/ SortLevels \/ Render

Spec == Init /\ [][Next]_vars

\* one item, every four-digit year
InitYears == InitWith(ItemLists(YearDates, 1))

SpecYears == InitYears /\ [][Next]_vars

\* long lists, for the cut of the recent selection
InitRecent == InitWith(ItemListsUpTo(RecentPool, MaxRecentItems))

SpecRecent == InitRecent /\ [][RecentSelect]_vars

----------------------------------------------------------------------------
(* scan_issues over one zips/{seriesId} directory, and the series item     *)
(* generate_index_html makes of its issues                                 *)

MaxZips == 2

\* a value of the manifest's JSON object: key absent, null, number, string
Absent == [type |-> "absent", val |-> <<>>]

Null == [type |-> "null", val |-> <<>>]

JInt(digits) == [type |-> "int", val |-> digits]

JStr(chars) == [type |-> "str", val |-> chars]

\* manifest.get(key, default)
Get(v, default) == IF v.type = "absent" THEN default ELSE v

\* `not v`
Falsy(v) ==
    \/ v.type \in {"absent", "null"}
    \/ v.type = "str" /\ v.val = <<>>
    \/ v.type = "int" /\ DigitsValue(v.val) = 0

DaysInMonth(y, m) ==
    IF m = 2
    THEN (IF y % 4 = 0 /\ (y % 100 # 0 \/ y % 400 = 0) THEN 29 ELSE 28)
    ELSE IF m \in {4, 6, 9, 11} THEN 30 ELSE 31

\* datetime.fromisoformat(str) on a str without time part: accepted when it
\* is YYYY-MM-DD and names a day of the calendar.  (The strings modelled have
\* no "Z" and are never of the forms YYYYMMDD or YYYY-Www-D.)
IsoDateOk(str) ==
    /\ Len(str) = 10
    /\ str[5] = "-"
    /\ str[8] = "-"
    /\ AllDigits(Slice(str, 0, 4))
    /\ AllDigits(Slice(str, 5, 7))
    /\ AllDigits(Slice(str, 8, 10))
    /\ LET y == DigitsValue(Slice(str, 0, 4))
           m == DigitsValue(Slice(str, 5, 7))
           d == DigitsValue(Slice(str, 8, 10))
       IN  /\ y >= 1
           /\ m \in 1..12
           /\ d \in 1..DaysInMonth(y, m)

\* _format_datetime(iso_str, tz_str).  A number has no .replace
\* (AttributeError, caught), and then no len() inside the handler: that
\* TypeError is raised out of the function.  tz_str is "" or a str int()
\* rejects (ValueError, caught); years are of four digits, so %Y gives them
\* back as written.
format_datetime(iso_str, tz_str) ==
    IF Falsy(iso_str) THEN [kind |-> "return", val |-> <<>>]
    ELSE IF iso_str.type = "int" THEN [kind |-> "raise", val |-> <<>>]
    ELSE IF IsoDateOk(iso_str.val) /\ tz_str = <<>>
    THEN [kind |-> "return", val |-> iso_str.val \o <<" ", "0", "0", ":", "0", "0">>]
    ELSE [kind |-> "return",
          val |-> IF Len(iso_str.val) >= 10 THEN Slice(iso_str.val, 0, 10)
                  ELSE iso_str.val]

\* metadata of a manifest: key absent, an object {title, tz}, or a string
NoMeta == [type |-> "absent", title |-> <<>>, tz |-> <<>>]

MetaDict(title, tz) == [type |-> "dict", title |-> title, tz |-> tz]

MetaStr == [type |-> "str", title |-> <<>>, tz |-> <<>>]

\* the try block of scan_issues: title, date, tz_offset as they stand after
\* it, whether it ran through or its handler caught an exception
read_manifest(z) ==
    LET untouched == [title |-> <<>>, date |-> JStr(<<>>), tz_offset |-> <<>>]
    IN  IF z.kind # "manifest" THEN untouched
        ELSE IF z.title = <<>> /\ z.meta.type = "str"
        THEN \* metadata.get raises before `date` is assigned
             untouched
        ELSE LET title == IF z.title # <<>> THEN z.title ELSE z.meta.title
                 date == Get(z.created, JStr(<<>>))
             IN  IF z.meta.type = "str"
                 THEN \* .get("tz") raises after `date` was assigned
                      [title |-> title, date |-> date, tz_offset |-> <<>>]
                 ELSE [title |-> title, date |-> date, tz_offset |-> z.meta.tz]

\* f"TQ-{serial_str}.pdf"
pdf_name(serial_str) == <<"T", "Q", "-">> \o serial_str \o <<".", "p", "d", "f">>

\* one pass of `for fname in os.listdir(series_dir)`
scan_one(z, out) ==
    LET m == read_manifest(z)
        date_display == format_datetime(m.date, m.tz_offset)
    IN  IF date_display.kind = "raise" THEN [kind |-> "raise"]
        ELSE [kind |-> "ok",
              issue |-> [serial_str |-> z.serial_str,
                         title |-> m.title,
                         date |-> date_display.val,
                         has_pdf |-> pdf_name(z.serial_str) \in out]]

\* issues.sort(key=lambda x: x["serial_str"], reverse=True)
SortedBySerial(iss) ==
    LET order == PySortedIdx([i \in 1..Len(iss) |-> iss[i].serial_str], "str", TRUE)
    IN  [i \in 1..Len(iss) |-> iss[order[i]]]

\* _render_issue_row: the title shown (the titles modelled hold nothing
\* html.escape changes)
title_text(issue) ==
    IF issue.title # <<>> THEN issue.title ELSE <<"T", "Q", "-">> \o issue.serial_str

\* generate_index_html: series_items of the one series
series_items(iss) ==
    IF iss = <<>> THEN <<>>
    ELSE <<[serial |-> 1, date |-> iss[1].date]>>

Manifest(title, meta, created) ==
    [kind |-> "manifest", title |-> title, meta |-> meta, created |-> created]

NoManifestOf(kind) ==
    [kind |-> kind, title |-> <<>>, meta |-> NoMeta, created |-> Absent]

T_title == <<"T">>

M_title == <<"M">>

\* what a zip file can hold
ZipContents ==
    {NoManifestOf("corrupt"), NoManifestOf("no_manifest"), NoManifestOf("bad_json"),
     Manifest(T_title, NoMeta, JStr(D_2024_03)),
     Manifest(T_title, NoMeta, JStr(D_2023_11)),
     Manifest(<<>>, MetaDict(M_title, <<>>), Absent),
     Manifest(<<>>, MetaDict(<<>>, <<"x">>), JStr(D_2024_01)),
     Manifest(<<>>, MetaStr, JStr(D_2024_03)),
     Manifest(T_title, MetaStr, JStr(D_2024_03)),
     Manifest(T_title, NoMeta, Null),
     Manifest(T_title, NoMeta, JInt(<<"0">>)),
     Manifest(T_title, NoMeta, JInt(<<"2", "0", "2", "4">>)),
     Manifest(T_title, NoMeta, JStr(D_badyear)),
     Manifest(T_title, NoMeta, JStr(D_month13)),
     Manifest(T_title, NoMeta, JStr(D_short))}

\* file names without ".zip"
SerialStrs == {<<"0", "0", "0", "0", "1">>, <<"0", "0", "0", "0", "2">>, <<"1">>}

ZipFiles ==
    {[serial_str |-> n, kind |-> c.kind, title |-> c.title, meta |-> c.meta,
      created |-> c.created] : n \in SerialStrs, c \in ZipContents}

\* the directory listings of n files (names differ), in any order
ZipLists(n) ==
    {zs \in [1..n -> ZipFiles] :
        \A i \in 1..n, j \in 1..n : i # j => zs[i].serial_str # zs[j].serial_str}

ZipListsUpTo(n) == UNION {ZipLists(m) : m \in 0..n}

InitScan ==
    /\ zips \in ZipListsUpTo(MaxZips)
    /\ pc = "scan"
    /\ items = <<>>
    /\ idx = 1
    /\ tree = <<>>
    /\ sorted_tree = <<>>
    /\ recent = <<>>
    /\ parts = <<>>
    /\ collapsed = FALSE
    /\ lang = "ja"
    /\ err = ""
    /\ issues = <<>>
    /\ output = {}
    /\ targets = <<>>
    /\ attempted = <<>>
    /\ label_call = [century |-> 1, lang |-> "ja", label |-> <<>>]

\* scan_issues, one zip file
ScanZip ==
    /\ pc = "scan"
    /\ Len(issues) < Len(zips)
    /\ LET r == scan_one(zips[Len(issues) + 1], output)
       IN  IF r.kind = "raise"
           THEN \* nothing up to main() catches the TypeError
                /\ pc' = "raised"
                /\ err' = "TypeError"
                /\ UNCHANGED issues
           ELSE /\ issues' = Append(issues, r.issue)
                /\ UNCHANGED <<pc, err>>
    /\ UNCHANGED <<items, idx, tree, sorted_tree, recent, parts, collapsed, lang>>
    /\ UNCHANGED <<zips, output, targets, attempted, label_call>>

\* scan_issues, after the last zip file of the series
ScanSort ==
    /\ pc = "scan"
    /\ Len(issues) = Len(zips)
    /\ issues' = SortedBySerial(issues)
    /\ pc' = "scanned"
    /\ UNCHANGED <<items, idx, tree, sorted_tree, recent, parts, collapsed, lang, err>>
    /\ UNCHANGED <<zips, output, targets, attempted, label_call>>

\* generate_index_html up to the `if not series_items` branch
SeriesItems ==
    /\ pc = "scanned"
    /\ items' = series_items(issues)
    /\ pc' = IF issues = <<>> THEN "done" ELSE "recent"
    /\ UNCHANGED <<idx, tree, sorted_tree, recent, parts, collapsed, lang, err>>
    /\ UNCHANGED other_vars

NextScan == ScanZip \/ ScanSort \/ SeriesItems

SpecScan == InitScan /\ [][NextScan]_vars

----------------------------------------------------------------------------
(* one call of _century_label *)

MaxCentury == 130

InitCentury ==
    /\ label_call \in {[century |-> c, lang |-> s, label |-> <<>>] :
                          c \in 1..MaxCentury, s \in Langs}
    /\ pc = "label"
    /\ items = <<>>
    /\ idx = 1
    /\ tree = <<>>
    /\ sorted_tree = <<>>
    /\ recent = <<>>
    /\ parts = <<>>
    /\ collapsed = FALSE
    /\ lang = "ja"
    /\ err = ""
    /\ zips = <<>>
    /\ issues = <<>>
    /\ output = {}
    /\ targets = <<>>
    /\ attempted = <<>>

\* _century_label(century, s)
CenturyLabel ==
    /\ pc = "label"
    /\ label_call' = [label_call EXCEPT
                         !.label = century_label(label_call.century, label_call.lang)]
    /\ pc' = "done"
    /\ UNCHANGED <<items, idx, tree, sorted_tree, recent, parts, collapsed, lang, err>>
    /\ UNCHANGED <<zips, issues, output, targets, attempted>>

SpecCentury == InitCentury /\ [][CenturyLabel]_vars

----------------------------------------------------------------------------
(* build-pdfs.py: main over one zips/{seriesId} directory.  The series is  *)
(* not in series.json (defaults are used); materials.json and config.json  *)
(* go to the build script, whose exit status is either, and which on       *)
(* status 0 has written the PDF under the name pdfUrl announces.           *)

\* the file name of a zip
zip_fname(serial_str) == serial_str \o <<".", "z", "i", "p">>

\* find_missing_pdfs: the serial_str of the targets
find_missing_pdfs(zs, out) ==
    LET order == PySortedIdx([i \in 1..Len(zs) |-> zip_fname(zs[i].serial_str)], "str", FALSE)
        names == [i \in 1..Len(zs) |-> zs[order[i]].serial_str]
    IN  SelectSeq(names, LAMBDA n : pdf_name(n) \notin out)

DigitChar(n) == CHOOSE c \in Digits : DigitVal(c) = n

\* str(n) for n >= 0
RECURSIVE IntStr(_)
IntStr(n) == IF n < 10 THEN <<DigitChar(n)>> ELSE Append(IntStr(n \div 10), DigitChar(n % 10))

\* f"{serial:05d}" for serial >= 0
Format05d(serial) ==
    LET str == IntStr(serial)
    IN  [i \in 1..(5 - Len(str)) |-> "0"] \o str

\* the file name in config["pdfUrl"]
announced_pdf_name(serial) ==
    <<"T", "Q", "-">> \o Format05d(serial) \o <<".", "p", "d", "f">>

\* build_pdf up to subprocess.run: an exception, `return False`, or the
\* build script is run
build_pdf(z) ==
    IF ~PyInt(z.serial_str).ok THEN [kind |-> "raise", err |-> "ValueError"]
    ELSE IF z.kind = "corrupt" THEN [kind |-> "raise", err |-> "BadZipFile"]
    ELSE IF z.kind = "no_manifest" THEN [kind |-> "false", err |-> ""]
    ELSE IF z.kind = "bad_json" THEN [kind |-> "raise", err |-> "JSONDecodeError"]
    ELSE IF z.title = <<>> /\ z.meta.type = "str"
    THEN [kind |-> "raise", err |-> "AttributeError"]
    ELSE IF ~Falsy(Get(z.created, JStr(<<>>))) /\ z.created.type = "int"
    THEN \* created_at[:4] on a number; only ValueError and IndexError are caught
         [kind |-> "raise", err |-> "TypeError"]
    ELSE [kind |-> "run", err |-> ""]

BuildContents ==
    {NoManifestOf("corrupt"), NoManifestOf("no_manifest"), NoManifestOf("bad_json"),
     Manifest(T_title, NoMeta, JStr(D_2024_03)),
     Manifest(T_title, NoMeta, JStr(D_badyear)),
     Manifest(<<>>, MetaStr, JStr(D_2024_03)),
     Manifest(T_title, NoMeta, JInt(<<"2", "0", "2", "4">>))}

BuildSerialStrs == {<<"0", "0", "0", "0", "1">>, <<"0", "0", "0", "0", "2">>, <<"1">>, <<"x">>}

BuildZipFiles ==
    {[serial_str |-> n, kind |-> c.kind, title |-> c.title, meta |-> c.meta,
      created |-> c.created] : n \in BuildSerialStrs, c \in BuildContents}

BuildZipLists(n) ==
    {zs \in [1..n -> BuildZipFiles] :
        \A i \in 1..n, j \in 1..n : i # j => zs[i].serial_str # zs[j].serial_str}

\* a directory of zips, some of them with their PDF already in output/
InitBuild ==
    /\ zips \in UNION {BuildZipLists(m) : m \in 0..MaxZips}
    /\ output \in SUBSET {pdf_name(zips[i].serial_str) : i \in 1..Len(zips)}
    /\ pc = "find"
    /\ items = <<>>
    /\ idx = 1
    /\ tree = <<>>
    /\ sorted_tree = <<>>
    /\ recent = <<>>
    /\ parts = <<>>
    /\ collapsed = FALSE
    /\ lang = "ja"
    /\ err = ""
    /\ issues = <<>>
    /\ targets = <<>>
    /\ attempted = <<>>
    /\ label_call = [century |-> 1, lang |-> "ja", label |-> <<>>]

\* the zip file of a target
TargetZip(serial_str) ==
    CHOOSE z \in {zips[i] : i \in 1..Len(zips)} : z.serial_str = serial_str

\* main: targets = find_missing_pdfs(), `if not targets: return`
FindMissing ==
    /\ pc = "find"
    /\ targets' = find_missing_pdfs(zips, output)
    /\ pc' = IF targets' = <<>> THEN "done" ELSE "build"
    /\ UNCHANGED <<items, idx, tree, sorted_tree, recent, parts, collapsed, lang, err>>
    /\ UNCHANGED <<zips, issues, output, attempted, label_call>>

\* main: one pass of `for series_id, serial_str, zip_path in targets`
BuildOne ==
    /\ pc = "build"
    /\ Len(attempted) < Len(targets)
    /\ LET serial_str == targets[Len(attempted) + 1]
           r == build_pdf(TargetZip(serial_str))
       IN  CASE r.kind = "raise" ->
                  \* nothing in main catches it: the run ends here
                  /\ attempted' = Append(attempted, [serial_str |-> serial_str, built |-> FALSE])
                  /\ pc' = "raised"
                  /\ err' = r.err
                  /\ UNCHANGED output
             [] r.kind = "false" ->
                  /\ attempted' = Append(attempted, [serial_str |-> serial_str, built |-> FALSE])
                  /\ UNCHANGED <<pc, err, output>>
             [] r.kind = "run" ->
                  \E returncode \in {0, 1} :
                     /\ attempted' = Append(attempted, [serial_str |-> serial_str,
                                                        built |-> returncode = 0])
                     /\ output' = IF returncode = 0
                                  THEN output \cup {announced_pdf_name(PyInt(serial_str).val)}
                                  ELSE output
                     /\ UNCHANGED <<pc, err>>
    /\ UNCHANGED <<items, idx, tree, sorted_tree, recent, parts, collapsed, lang>>
    /\ UNCHANGED <<zips, issues, targets, label_call>>

\* main after the loop: sys.exit(1) when a build returned False
BuildEnd ==
    /\ pc = "build"
    /\ Len(attempted) = Len(targets)
    /\ pc' = IF \A i \in 1..Len(attempted) : attempted[i].built THEN "done" ELSE "exit1"
    /\ UNCHANGED <<items, idx, tree, sorted_tree, recent, parts, collapsed, lang, err>>
    /\ UNCHANGED other_vars

NextBuild == FindMissing \/ BuildOne \/ BuildEnd

SpecBuild == InitBuild /\ [][NextBuild]_vars

----------------------------------------------------------------------------
(* what the claims speak of *)

\* _time_hierarchy has returned its tree to the generator
TreeReturned == pc \in {"render", "done"} \/ err = "IndexError"

\* a four-digit year field and a two-digit month field
Parseable(d) ==
    /\ Len(d) >= 7
    /\ AllDigits(Slice(d, 0, 4))
    /\ AllDigits(Slice(d, 5, 7))

YearOf(d) == DigitsValue(Slice(d, 0, 4))

MonthOf(d) == DigitsValue(Slice(d, 5, 7))

ParseableIdx == {i \in 1..Len(items) : Parseable(items[i].date)}

\* the positions <<century, shikinen, year, month, n>> of the items stored in t
LeafSlots(t) ==
    UNION {UNION {UNION {UNION {
            {<<a, b, c, e, n>> : n \in 1..Len(t[a].v[b].v[c].v[e].v)}
          : e \in 1..Len(t[a].v[b].v[c].v)}
        : c \in 1..Len(t[a].v[b].v)}
      : b \in 1..Len(t[a].v)}
    : a \in 1..Len(t)}

SlotItem(t, q) == t[q[1]].v[q[2]].v[q[3]].v[q[4]].v[q[5]]

\* the four keys leading to slot q
SlotPath(t, q) ==
    <<t[q[1]].k, t[q[1]].v[q[2]].k, t[q[1]].v[q[2]].v[q[3]].k,
      t[q[1]].v[q[2]].v[q[3]].v[q[4]].k>>

SlotsOf(t, item) == {q \in LeafSlots(t) : SlotItem(t, q) = item}

\* C1: in the tree _time_hierarchy returns, every item with a four-digit year
\* and two-digit month lies in exactly one leaf, the one at the path
\* (century, (cycleStart, cycleEnd), year, month) of its own date; the leaf
\* lengths add up to the number of such items; no item with an empty or
\* shorter-than-7 date lies in a leaf.
C1_EveryParseableItemInOneLeaf ==
    TreeReturned =>
      /\ \A i \in ParseableIdx :
            LET d == items[i].date
                y == YearOf(d)
            IN  /\ Cardinality(SlotsOf(sorted_tree, items[i])) = 1
                /\ \A q \in SlotsOf(sorted_tree, items[i]) :
                      /\ SlotPath(sorted_tree, q)[1] = (y - 1) \div 100 + 1
                      /\ SlotPath(sorted_tree, q)[2] = shikinen_range(y)
                      /\ SlotPath(sorted_tree, q)[3] = y
                      /\ SlotPath(sorted_tree, q)[4] = MonthOf(d)
      /\ Cardinality(LeafSlots(sorted_tree)) = Cardinality(ParseableIdx)
      /\ \A i \in 1..Len(items) :
            Len(items[i].date) < 7 => SlotsOf(sorted_tree, items[i]) = {}

\* a returned tree with two items in one leaf, beside a skipped item
C1_Witness ==
    /\ pc = "done"
    /\ \E q1 \in LeafSlots(sorted_tree), q2 \in LeafSlots(sorted_tree) :
          /\ q1 # q2
          /\ SlotPath(sorted_tree, q1) = SlotPath(sorted_tree, q2)
    /\ \E i \in 1..Len(items) : Len(items[i].date) < 7

\* C2: for every year of four digits, the cycle of the item's path has
\* cycleStart <= year <= cycleEnd, cycleEnd - cycleStart = 19, and cycleStart
\* a multiple of 20 above centuryStart = (century-1)*100 + 1, century =
\* (year-1) div 100 + 1; 2023 and 2024 lie in (2021, 2040) and 2044 in
\* (2041, 2060), all in century 21.
C2_CycleAlignedAroundYear ==
    (pc \in {"render", "done"} /\ Len(items) = 1 /\ Parseable(items[1].date)) =>
      LET year == YearOf(items[1].date)
          century == (year - 1) \div 100 + 1
          centuryStart == (century - 1) * 100 + 1
          c_key == sorted_tree[1].k
          cycleStart == sorted_tree[1].v[1].k[1]
          cycleEnd == sorted_tree[1].v[1].k[2]
      IN  /\ c_key = century
          /\ cycleStart <= year /\ year <= cycleEnd
          /\ cycleEnd - cycleStart = 19
          /\ (cycleStart - centuryStart) % 20 = 0
          /\ centuryStart <= cycleStart /\ cycleEnd <= centuryStart + 99
          /\ year \in {2023, 2024} => (c_key = 21 /\ cycleStart = 2021 /\ cycleEnd = 2040)
          /\ year = 2044 => (c_key = 21 /\ cycleStart = 2041 /\ cycleEnd = 2060)

\* the last year of a cycle is bucketed
C2_Witness ==
    /\ pc = "done"
    /\ Len(items) = 1
    /\ YearOf(items[1].date) = 2040
    /\ sorted_tree[1].v[1].k = <<2021, 2040>>

\* C3: an item whose date has 7 or more characters but a year or month field
\* that is no integer is skipped: no error is raised and the tree returned
\* holds all the other valid items.
C3_UnparseableDateIsSkipped ==
    /\ err # "ValueError"
    /\ (pc \in {"render", "done"} /\ \E i \in 1..Len(items) :
            Len(items[i].date) >= 7 /\ ~Parseable(items[i].date))
         => \A i \in ParseableIdx : SlotsOf(sorted_tree, items[i]) # {}

\* keys strictly descending; cycles by (cycleStart, cycleEnd)
Descending(keys, kind) ==
    \A i \in 1..Len(keys), j \in 1..Len(keys) : i < j => KeyLess(kind, keys[j], keys[i])

LevelIdx(level) == CHOOSE n \in 1..Len(levels) : levels[n] = level

KindOf(level) == IF level = "shikinen" THEN "pair" ELSE "int"

GroupIdx(evs) == {j \in 1..Len(evs) : evs[j].tag = "group"}

ItemIdx(evs) == {j \in 1..Len(evs) : evs[j].tag = "item"}

Max(S) == CHOOSE x \in S : \A y \in S : y <= x

\* the group of level n that position j of the output lies in (j itself when
\* it is that group), 0 when there is none
Enclosing(evs, j, n) ==
    LET before == {g \in GroupIdx(evs) : g <= j /\ evs[g].level = levels[n]}
    IN  IF before = {} THEN 0 ELSE Max(before)

\* the group that group g is a child of, 0 for a century
Parent(evs, g) ==
    IF LevelIdx(evs[g].level) = 1 THEN 0
    ELSE Enclosing(evs, g, LevelIdx(evs[g].level) - 1)

Siblings(evs, g) ==
    {h \in GroupIdx(evs) : evs[h].level = evs[g].level /\ Parent(evs, h) = Parent(evs, g)}

\* C4: under every node of the returned tree, at each of the four levels,
\* the sibling keys are strictly descending (cycles by cycleStart), and
\* _render_time_groups emits sibling groups in that descending order.
C4_SiblingsDescending ==
    /\ TreeReturned =>
         /\ Descending(od_keys(sorted_tree), "int")
         /\ \A a \in 1..Len(sorted_tree) :
               LET c_node == sorted_tree[a].v
               IN  /\ Descending(od_keys(c_node), "pair")
                   /\ \A i \in 1..Len(c_node), j \in 1..Len(c_node) :
                         i < j => c_node[j].k[1] < c_node[i].k[1]
                   /\ \A b \in 1..Len(c_node) :
                         LET sh_node == c_node[b].v
                         IN  /\ Descending(od_keys(sh_node), "int")
                             /\ \A c \in 1..Len(sh_node) :
                                   Descending(od_keys(sh_node[c].v), "int")
    /\ pc = "done" =>
         \A g \in GroupIdx(parts) : \A h \in Siblings(parts, g) :
            g < h => KeyLess(KindOf(parts[g].level), parts[h].key, parts[g].key)

\* siblings at two levels were inserted oldest first and are rendered
C4_Witness ==
    /\ pc = "done"
    /\ Len(tree) >= 2
    /\ tree[1].k < tree[2].k
    /\ \E a \in 1..Len(tree) :
          /\ Len(tree[a].v) >= 2
          /\ tree[a].v[1].k[1] < tree[a].v[2].k[1]

\* the tree with every leaf list replaced by the set of its items
Shape(t) ==
    [a \in 1..Len(t) |-> [k |-> t[a].k, v |->
      [b \in 1..Len(t[a].v) |-> [k |-> t[a].v[b].k, v |->
        [c \in 1..Len(t[a].v[b].v) |-> [k |-> t[a].v[b].v[c].k, v |->
          [e \in 1..Len(t[a].v[b].v[c].v) |-> [k |-> t[a].v[b].v[c].v[e].k, v |->
            {t[a].v[b].v[c].v[e].v[n] : n \in 1..Len(t[a].v[b].v[c].v[e].v)}]]]]]]]]

Permuted(its, p) == [i \in 1..Len(its) |-> its[p[i]]]

Perms(n) == {p \in [1..n -> 1..n] : \A i \in 1..n, j \in 1..n : p[i] = p[j] => i = j}

\* C5: _time_hierarchy on any permutation of the item list gives a tree with
\* the same key paths in the same sibling order and the same items in every
\* leaf (the order inside a leaf may differ).  Stated where the tree is
\* returned (pc = "render"); items and sorted_tree do not change afterwards.
C5_PermutationSameTree ==
    pc = "render" =>
      \A p \in Perms(Len(items)) :
         LET other == time_hierarchy(Permuted(items, p))
         IN  /\ ~other.raised
             /\ Shape(other.tree) = Shape(sorted_tree)

\* a permutation that inserts the keys in another order and fills a leaf in
\* another order
C5_Witness ==
    /\ pc = "render"
    /\ \E p \in Perms(Len(items)) :
          LET built == BucketAll(<<>>, Permuted(items, p))
              other == time_hierarchy(Permuted(items, p))
          IN  /\ od_keys(built.tree) # od_keys(tree)
              /\ other.tree # sorted_tree

\* C6: with collapsed=True no group of the output is open, whatever the
\* (non-empty) tree.
C6_CollapsedNothingOpen ==
    (pc = "done" /\ collapsed) => \A g \in GroupIdx(parts) : ~parts[g].open

\* collapsed output with an only child and with a newest-first path among siblings
C6_Witness ==
    /\ pc = "done"
    /\ collapsed
    /\ \E g \in GroupIdx(parts) : Cardinality(Siblings(parts, g)) = 1
    /\ \E g \in GroupIdx(parts) : Cardinality(Siblings(parts, g)) >= 2

\* g is the first of its siblings, and so is every group it lies in
OnSpine(evs, g) ==
    \A n \in 1..LevelIdx(evs[g].level) :
       LET a == Enclosing(evs, g, n)
       IN  \A h \in Siblings(evs, a) : a <= h

\* C7: with collapsed=False a group is open iff it is on the newest-first
\* spine (first sibling, under first siblings up to the root) or it is the
\* only child of its parent.
C7_OpenIffSpineOrOnlyChild ==
    (pc = "done" /\ ~collapsed) =>
      \A g \in GroupIdx(parts) :
         parts[g].open <=> (OnSpine(parts, g) \/ Siblings(parts, g) = {g})

\* an open only child off the spine, and a closed first sibling off the spine
C7_Witness ==
    /\ pc = "done"
    /\ ~collapsed
    /\ \E g \in GroupIdx(parts) :
          parts[g].open /\ ~OnSpine(parts, g) /\ Siblings(parts, g) = {g}
    /\ \E g \in GroupIdx(parts) :
          /\ ~parts[g].open
          /\ Cardinality(Siblings(parts, g)) >= 2
          /\ \A h \in Siblings(parts, g) : g <= h

\* the fragments emitted inside group g
ItemsBeneath(evs, g) ==
    {j \in ItemIdx(evs) : Enclosing(evs, j, LevelIdx(evs[g].level)) = g}

Children(evs, g) == {h \in GroupIdx(evs) : h # g /\ Parent(evs, h) = g}

RECURSIVE SumCounts(_, _)
SumCounts(evs, S) ==
    IF S = {} THEN 0
    ELSE LET g == CHOOSE x \in S : TRUE
         IN  evs[g].count + SumCounts(evs, S \ {g})

\* C8: the count of every group is the number of leaf items beneath it; so a
\* non-leaf group's count is the sum of its child groups' counts, and the
\* century counts add up to the number of items in the tree.
C8_CountIsLeafItemsBeneath ==
    pc = "done" =>
      /\ \A g \in GroupIdx(parts) :
            /\ parts[g].count = Cardinality(ItemsBeneath(parts, g))
            /\ parts[g].count_text[1] = parts[g].count
            /\ parts[g].level # "month" =>
                  parts[g].count = SumCounts(parts, Children(parts, g))
      /\ SumCounts(parts, {g \in GroupIdx(parts) : parts[g].level = "century"})
           = Cardinality(LeafSlots(sorted_tree))

\* a group with one child and two items
C8_Witness ==
    /\ pc = "done"
    /\ \E g \in GroupIdx(parts) :
          /\ Cardinality(Children(parts, g)) = 1
          /\ parts[g].count = 2

\* the recent selection has been made
RecentMade == pc # "recent"

Returned(item) == \E i \in 1..Len(recent) : recent[i] = item

\* C9: the recent selection over n items returns exactly min(10, n) items,
\* all from the input and none twice, in non-increasing order of their date
\* strings, and no omitted item has a date greater than a returned item's.
C9_RecentIsTopTenByDate ==
    RecentMade =>
      /\ Len(recent) = (IF Len(items) < 10 THEN Len(items) ELSE 10)
      /\ \A i \in 1..Len(recent) : \E j \in 1..Len(items) : recent[i] = items[j]
      /\ \A i \in 1..Len(recent), j \in 1..Len(recent) :
            i # j => recent[i].serial # recent[j].serial
      /\ \A i \in 1..Len(recent), j \in 1..Len(recent) :
            i < j => ~StrLess(recent[i].date, recent[j].date)
      /\ \A o \in 1..Len(items) : \A i \in 1..Len(recent) :
            ~Returned(items[o]) => ~StrLess(recent[i].date, items[o].date)

\* eleven items of two dates, the older date first in the input: ten returned
C9_Witness ==
    /\ RecentMade
    /\ Len(items) = 11
    /\ Len(recent) = 10
    /\ StrLess(items[1].date, items[11].date)
    /\ StrLess(recent[10].date, recent[1].date)

\* C10: two items with the same date that are both returned keep their input
\* order, and when the cut at ten falls inside a run of equal dates the items
\* earlier in the input are the ones kept.
C10_RecentIsStable ==
    RecentMade =>
      /\ \A i \in 1..Len(recent), j \in 1..Len(recent) :
            (i < j /\ recent[i].date = recent[j].date)
               => recent[i].serial < recent[j].serial
      /\ \A o \in 1..Len(items) : \A i \in 1..Len(recent) :
            (~Returned(items[o]) /\ items[o].date = recent[i].date)
               => recent[i].serial < items[o].serial

\* the cut falls inside a run of equal dates
C10_Witness ==
    /\ RecentMade
    /\ Len(recent) = 10
    /\ \E o \in 1..Len(items) :
          /\ ~Returned(items[o])
          /\ items[o].date = recent[10].date
          /\ items[o].date = recent[9].date

\* C11: an item with an empty date is not left out of the recent selection:
\* it comes after every item with a non-empty date (a dated item followed by
\* an undated one gives the undated one last), and it is in no leaf of the
\* tree _time_hierarchy builds.
C11_EmptyDateRecentLastNotInTree ==
    /\ RecentMade =>
         /\ \A i \in 1..Len(items) :
               (items[i].date = <<>> /\ Len(items) <= RecentLimit) => Returned(items[i])
         /\ \A i \in 1..Len(recent), j \in 1..Len(recent) :
               (recent[i].date = <<>> /\ recent[j].date # <<>>) => j < i
    /\ TreeReturned =>
         \A i \in 1..Len(items) :
            items[i].date = <<>> => SlotsOf(sorted_tree, items[i]) = {}

\* an undated item before a dated one: selected last, and not bucketed
C11_Witness ==
    /\ pc = "done"
    /\ Len(items) = 2
    /\ items[1].date = <<>>
    /\ items[2].date = D_2024_03
    /\ recent = <<items[2], items[1]>>
    /\ Cardinality(LeafSlots(sorted_tree)) = 1

AllDatesEmpty == \A i \in 1..Len(items) : items[i].date = <<>>

\* C12: for the empty list, and for a list of items that all have an empty
\* date, nothing raises, the recent selection is what sorting the input gives
\* (the input itself), the tree is empty, and rendering it gives no group and
\* no fragment.
C12_EmptyInputEmptyOutput ==
    AllDatesEmpty =>
      /\ err = ""
      /\ pc # "raised"
      /\ RecentMade => recent = items
      /\ tree = <<>>
      /\ sorted_tree = <<>>
      /\ parts = <<>>

\* undated items only, rendered
C12_Witness ==
    /\ pc = "done"
    /\ Len(items) >= 2
    /\ AllDatesEmpty

\* C14: inside every month group the fragments come in the order the items had
\* in the input of _time_hierarchy.
C14_LeafKeepsInputOrder ==
    /\ TreeReturned =>
         \A q1 \in LeafSlots(sorted_tree), q2 \in LeafSlots(sorted_tree) :
            (SubSeq(q1, 1, 4) = SubSeq(q2, 1, 4) /\ q1[5] < q2[5])
               => SlotItem(sorted_tree, q1).serial < SlotItem(sorted_tree, q2).serial
    /\ pc = "done" =>
         \A j1 \in ItemIdx(parts), j2 \in ItemIdx(parts) :
            (j1 < j2 /\ Enclosing(parts, j1, 4) = Enclosing(parts, j2, 4))
               => parts[j1].item.serial < parts[j2].item.serial

\* a month group with two fragments, in a tree the sort pass reordered
C14_Witness ==
    /\ pc = "done"
    /\ \E j1 \in ItemIdx(parts), j2 \in ItemIdx(parts) :
          /\ j1 < j2
          /\ Enclosing(parts, j1, 4) = Enclosing(parts, j2, 4)
    /\ tree # sorted_tree

\* C15: every month key of a tree is an integer in 1..12, so the month label
\* lookup of the renderer is defined and gives that month's name.
C15_MonthKeysInRange ==
    /\ TreeReturned => \A m \in MonthKeys(sorted_tree) : 1 <= m /\ m <= 12
    /\ err # "IndexError"
    /\ pc = "done" =>
         \A g \in GroupIdx(parts) :
            parts[g].level = "month" => parts[g].label = <<MonthNames(lang)[parts[g].key]>>

\* the groups open at position j of the output: the levels of the groups
\* entered and not yet left, outermost first
RECURSIVE OpenGroups(_, _)
OpenGroups(evs, j) ==
    IF j = 0 THEN <<>>
    ELSE LET up == OpenGroups(evs, j - 1)
         IN  IF evs[j].tag = "group" THEN Append(up, evs[j].level)
             ELSE IF evs[j].tag = "close" THEN SubSeq(up, 1, Len(up) - 1)
             ELSE up

\* C20: render_item is called once for each item stored in the tree; every
\* fragment lies inside exactly four nested groups, century, shikinen, year,
\* month from the outside in; every group opened is closed, and nothing is
\* closed that was not opened.
C20_FragmentsInsideFourGroups ==
    pc = "done" =>
      /\ \A q \in LeafSlots(sorted_tree) :
            Cardinality({j \in ItemIdx(parts) : parts[j].item = SlotItem(sorted_tree, q)}) = 1
      /\ Cardinality(ItemIdx(parts)) = Cardinality(LeafSlots(sorted_tree))
      /\ \A j \in ItemIdx(parts) : OpenGroups(parts, j) = levels
      /\ \A j \in 1..Len(parts) :
            parts[j].tag = "close" => OpenGroups(parts, j - 1) # <<>>
      /\ \A j \in GroupIdx(parts) :
            OpenGroups(parts, j) = SubSeq(levels, 1, Len(OpenGroups(parts, j)))
      /\ OpenGroups(parts, Len(parts)) = <<>>

\* two centuries rendered, one of them with two fragments in one month
C20_Witness ==
    /\ pc = "done"
    /\ Cardinality({g \in GroupIdx(parts) : parts[g].level = "century"}) = 2
    /\ \E g \in GroupIdx(parts) : parts[g].level = "month" /\ parts[g].count = 2

\* the zip file an issue was made of
ZipOf(issue) == CHOOSE z \in {zips[i] : i \in 1..Len(zips)} : z.serial_str = issue.serial_str

\* an archive that is corrupt, has no manifest.json or has one that is not JSON
Unreadable(z) == z.kind # "manifest"

\* a manifest whose createdAt is missing, not a string, or not a date
BadCreatedAt(z) ==
    /\ z.kind = "manifest"
    /\ \/ z.created.type # "str"
       \/ ~IsoDateOk(z.created.val)

\* C13: scan_issues does not abort on a zip whose metadata is unreadable or
\* malformed: every zip of the series gets an item, the item of such a zip
\* has the empty date, and the item of an unreadable one is shown under the
\* title TQ-{serial_str}.
C13_MalformedZipGivesUndatedItem ==
    /\ err # "TypeError"
    /\ pc \in {"scanned", "recent", "done"} => Len(issues) = Len(zips)
    /\ \A i \in 1..Len(issues) :
          LET z == ZipOf(issues[i])
          IN  /\ (Unreadable(z) \/ BadCreatedAt(z)) => issues[i].date = <<>>
              /\ Unreadable(z) => title_text(issues[i]) = <<"T", "Q", "-">> \o z.serial_str

\* C16: the date of the series item of the top-level index is the greatest
\* date among the issues of the series.
C16_SeriesDateIsLatestIssueDate ==
    (pc = "recent" /\ issues # <<>>) =>
       /\ Len(items) = 1
       /\ \E i \in 1..Len(issues) : issues[i].date = items[1].date
       /\ \A i \in 1..Len(issues) : ~StrLess(items[1].date, issues[i].date)

\* the English ordinal suffix of n, read off its decimal digits: "th" for a
\* tens digit 1, else by the units digit
Ordinal(n) ==
    LET units == n % 10
        tens == (n \div 10) % 10
    IN  CASE tens = 1 -> "th"
          [] tens # 1 /\ units = 1 -> "st"
          [] tens # 1 /\ units = 2 -> "nd"
          [] tens # 1 /\ units = 3 -> "rd"
          [] OTHER -> "th"

Labelled == pc = "done" /\ label_call.label # <<>>

\* C17: for the English table _century_label(c) is c followed by "th" when
\* c mod 100 is 11, 12 or 13, else by "st", "nd", "rd" for c mod 10 = 1, 2, 3,
\* else by "th" (21 gives 21st, 112 gives 112th); the Japanese table gives c
\* followed by its fixed suffix.
C17_CenturyOrdinal ==
    Labelled =>
       LET c == label_call.century
           l == label_call.label
       IN  /\ label_call.lang = "en" =>
                /\ l = <<c, Ordinal(c), " century">>
                /\ c % 100 \in {11, 12, 13} => l[2] = "th"
                /\ (c % 100 \notin {11, 12, 13} /\ c % 10 = 1) => l[2] = "st"
                /\ (c % 100 \notin {11, 12, 13} /\ c % 10 = 2) => l[2] = "nd"
                /\ (c % 100 \notin {11, 12, 13} /\ c % 10 = 3) => l[2] = "rd"
                /\ c % 10 \notin {1, 2, 3} => l[2] = "th"
                /\ c = 21 => l = <<21, "st", " century">>
                /\ c = 112 => l = <<112, "th", " century">>
           /\ label_call.lang = "ja" => l = <<c, "seiki">>

\* the label of century 112 in English
C17_Witness ==
    /\ Labelled
    /\ label_call.century = 112
    /\ label_call.lang = "en"
    /\ label_call.label = <<112, "th", " century">>

\* the run of main is over
RunOver == pc \in {"done", "exit1", "raised"}

\* the scan is over and no build was made yet: output/ is as it was scanned
Scanned == pc \in {"build", "done"} /\ attempted = <<>>

\* the zips without their TQ-{serial_str}.pdf in output/
Missing ==
    {zips[i].serial_str : i \in {j \in 1..Len(zips) : pdf_name(zips[j].serial_str) \notin output}}

\* C18: in one run of main, build_pdf is called once for every zip that had
\* no TQ-{serial}.pdf at scan time and never for a zip that had one; a
\* target whose build fails does not keep the later targets from being
\* attempted.
C18_EveryMissingPdfAttemptedOnce ==
    /\ Scanned => {targets[j] : j \in 1..Len(targets)} = Missing
    /\ \A i \in 1..Len(attempted) :
          /\ \E j \in 1..Len(targets) : targets[j] = attempted[i].serial_str
          /\ \A k \in 1..Len(attempted) : attempted[k].serial_str = attempted[i].serial_str => k = i
    /\ RunOver =>
          \A j \in 1..Len(targets) :
             \E i \in 1..Len(attempted) : attempted[i].serial_str = targets[j]

\* C19: the name whose absence makes a zip a target, TQ-{serial_str}.pdf, is
\* the name build_pdf announces for it, TQ-{serial:05d}.pdf; after a run in
\* which every build succeeded a second scan finds nothing missing.
C19_SecondRunFindsNothingMissing ==
    /\ \A i \in 1..Len(attempted) :
          PyInt(attempted[i].serial_str).ok =>
             pdf_name(attempted[i].serial_str)
                = announced_pdf_name(PyInt(attempted[i].serial_str).val)
    /\ (pc = "done" /\ targets # <<>>) => find_missing_pdfs(zips, output) = <<>>

====
